---- MODULE Spec2Model ----
(***************************************************************************)
(* The tabular transform engines of pytorch_pfn_extras                     *)
(* (dataset/tabular/_transform.py: _Transform, _TransformBatch) and the    *)
(* LRScheduler training extension (training/extensions/lr_scheduler.py).   *)
(*                                                                         *)
(* Python values are encoded as follows.                                   *)
(*   - list/tuple positions are the 0-based integers of the source; a      *)
(*     TLA+ sequence s holds Python's s[i] at s[i + 1] (see At).           *)
(*   - an argument that may be None is a record [none, v].                 *)
(*   - the attribute _mode is "unset" while the object has no such         *)
(*     attribute, and otherwise "tuple", "dict" or "none" (Python's tuple, *)
(*     dict and None).                                                     *)
(*   - a raised exception is the status of the call: "ok" when the call    *)
(*     returns, otherwise the exception.                                   *)
(***************************************************************************)
EXTENDS Integers, Sequences, FiniteSets, TLC

VARIABLES
    engine,     \* which class the object under test is: "row" or "batch"
    dsMode,     \* self._dataset.mode
    regs,       \* self._transforms: the registered (signature, callable) pairs
    keys,       \* self._keys
    behav,      \* the kind of value each registered callable returns now
    badcol,     \* the column whose length the batch callable changes (0: none)
    mode,       \* self._mode
    last,       \* the last call on the object: its arguments and its outcome
    threads,    \* two threads inside get_examples of one object: where each is
    lr,         \* an LRScheduler extension, its manager and its scheduler
    entry       \* what _as_extension returned for a callable, and its events

cfgvars == <<engine, dsMode, regs, keys, threads, lr, entry>>

-----------------------------------------------------------------------------
(* Bounds *)

\* len(self._dataset): the number of rows of the wrapped dataset
NRows == 2

-----------------------------------------------------------------------------
(* Python helpers *)

NoneArg == [none |-> TRUE, v |-> <<>>]
Some(s) == [none |-> FALSE, v |-> s]

\* range(n)
Range(n) == [i \in 1..n |-> i - 1]

\* x in seq
InSeq(x, seq) == \E j \in 1..Len(seq) : seq[j] = x

\* seq.index(x): the first position holding x
IndexOf(seq, x) ==
    CHOOSE j \in 0..(Len(seq) - 1) :
        seq[j + 1] = x /\ \A k \in 1..j : seq[k] # x

\* seq[i]
At(seq, i) == seq[i + 1]

\* set(seq)
ToSet(seq) == {seq[j] : j \in 1..Len(seq)}

RECURSIVE SortedInts(_)
\* sorted(list(S)) for a set of integers
SortedInts(S) ==
    IF S = {} THEN <<>>
    ELSE LET m == CHOOSE x \in S : \A y \in S : x <= y
         IN <<m>> \o SortedInts(S \ {m})

\* The order Python's sorted() gives the key names used here.
KeyOrder == <<"a", "b", "c", "p", "q", "r", "sum", "x", "y">>

RECURSIVE SortedKeys(_)
\* tuple(sorted(list(keys)))
SortedKeys(S) ==
    IF S = {} THEN <<>>
    ELSE LET m == CHOOSE x \in S :
                      \A y \in S : IndexOf(KeyOrder, x) <= IndexOf(KeyOrder, y)
         IN <<m>> \o SortedKeys(S \ {m})

RECURSIVE Perms(_)
\* every ordering of the members of S
Perms(S) ==
    IF S = {} THEN {<<>>}
    ELSE UNION {{<<x>> \o p : p \in Perms(S \ {x})} : x \in S}

\* every sequence of distinct members of S
DistinctSeqs(S) == UNION {Perms(T) : T \in SUBSET S}

-----------------------------------------------------------------------------
(* The wrapped dataset: a tuple-, mapping- or scalar-mode tabular dataset  *)
(* with keys a, b, c and NRows rows.                                       *)

DatasetKeys == <<"a", "b", "c">>

\* the value at row r, column c
Cell(r, c) == 10 * (r + 1) + c

\* start, stop, step = indices.indices(len(self)); range(start, stop, step)
\* for 0 <= start, 0 <= stop, step > 0
SliceLen(start, stop, step, len) ==
    LET s == IF start < len THEN start ELSE len
        e == IF stop < len THEN stop ELSE len
    IN IF e <= s THEN 0 ELSE ((e - s) + step - 1) \div step

\* the rows a row selection names, in its order
DatasetRows(indices) ==
    CASE indices.kind = "none" -> Range(NRows)
      [] indices.kind = "list" -> indices.v
      [] indices.kind = "slice" ->
            [i \in 1..Cardinality({r \in 0..(NRows - 1) :
                                      /\ r >= indices.start
                                      /\ r < indices.stop
                                      /\ (r - indices.start) % indices.step = 0})
                |-> indices.start + (i - 1) * indices.step]

\* self._dataset.get_examples(indices, key_indices): one column per position
DatasetGetExamples(indices, key_indices) ==
    LET cols == IF key_indices.none THEN Range(Len(DatasetKeys))
                ELSE key_indices.v
        rows == DatasetRows(indices)
    IN [j \in 1..Len(cols) |-> [r \in 1..Len(rows) |-> Cell(rows[r], cols[j])]]

\* _utils._as_key_indices(keys, key_names)
AsKeyIndices(ks, key_names) ==
    [j \in 1..Len(ks) |-> IndexOf(key_names, ks[j])]

-----------------------------------------------------------------------------
(* _Transform *)

\* __init__: self._keys = tuple(sorted(list(keys)))
TransformInitKeys(transforms) ==
    SortedKeys(UNION {ToSet(transforms[t].res) : t \in 1..Len(transforms)})

\* a variant of Contained: any() where the source has all()
ContainedAny(res_idx, key_indices) ==
    \E j \in 1..Len(res_idx) : InSeq(res_idx[j], key_indices)

\* contained = all([r in key_indices for r in res_idx])
Contained(res_idx, key_indices) ==
    \A j \in 1..Len(res_idx) : InSeq(res_idx[j], key_indices)

\* a variant of Operands: every column of the wrapped dataset
OperandsEveryColumn(transforms) == Range(Len(DatasetKeys))

\* operands.update(ops_idx) over the selected transforms; sorted(list(operands))
Operands(transforms) ==
    SortedInts(UNION {ToSet(transforms[j].ops_idx) : j \in 1..Len(transforms)})

\* _find_candidate_transforms(key_indices)
FindCandidateTransforms(key_indices) ==
    LET all == [t \in 1..Len(regs) |->
                  [ops_idx |-> AsKeyIndices(regs[t].ops, DatasetKeys),
                   t       |-> t - 1,
                   res_idx |-> AsKeyIndices(regs[t].res, keys)]]
        IsSel(e) == Contained(e.res_idx, key_indices)
        transforms == SelectSeq(all, IsSel)
    IN [ops_idx |-> Operands(transforms), transforms |-> transforms]

\* the value a registered callable computes for its i-th result
Val(t, i, style, names, args) ==
    [t |-> t, i |-> i, style |-> style, names |-> names, args |-> args]

\* transform(*inputs) for the callable of registration t
Invoke(t, style, names, args) ==
    LET res == regs[t + 1].res
        kind == behav[t + 1]
    IN [kind  |-> kind,
        names |-> IF kind = "dict" THEN res ELSE <<>>,
        vals  |-> IF kind = "none"
                  THEN <<Val(t, 0, style, names, args)>>
                  ELSE [i \in 1..Len(res) |-> Val(t, i - 1, style, names, args)]]

\* self.transform on a _Transform: the tabular dataset contract (length, keys,
\* mode, get_examples, convert) has no member of that name
SelfTransform == "AttributeError"

\* lines 76-86: the call, by the mode of the wrapped dataset; callee is the
\* registration whose callable ran, or -1 for the dataset's own method
CallTransform(t, inputs, ops_idx) ==
    CASE dsMode = "tuple" ->
            [status |-> "ok", callee |-> t, style |-> "pos",
             out |-> Invoke(t, "pos", <<>>, inputs)]
      [] dsMode = "dict" ->
            \* keys = [self._dataset.keys for i in ops_idx]: every name is the
            \* whole key tuple, so a non-empty dict(zip(keys, inputs)) has a
            \* tuple for its one keyword and the call raises TypeError
            IF Len(ops_idx) > 0 /\ Len(inputs) > 0
            THEN [status |-> "TypeError", callee |-> t, style |-> "kw",
                  out |-> Invoke(t, "kw", <<>>, <<>>)]
            ELSE [status |-> "ok", callee |-> t, style |-> "kw",
                  out |-> Invoke(t, "kw", <<>>, <<>>)]
      [] dsMode = "none" ->
            \* self.transform(*inputs): an attribute of the object, which has
            \* none of that name, not the registered callable
            [status |-> SelfTransform, callee |-> -1, style |-> "pos",
             out |-> Invoke(t, "pos", <<>>, inputs)]

\* a variant of ReturnTypeChanged: the test made for tuples only
ReturnTypeChangedTupleOnly(m, kind) ==
    kind = "tuple" /\ m # "unset" /\ m # kind

\* hasattr(self, "_mode") and self._mode is not <kind>
ReturnTypeChanged(m, kind) == m # "unset" /\ m # kind

RECURSIVE ScatterTuple(_, _, _, _, _)
\* lines 93-99
ScatterTuple(out, vals, t_res_idx, key_indices, j) ==
    IF j > Len(t_res_idx) THEN out
    ELSE ScatterTuple(
            [out EXCEPT ![IndexOf(key_indices, t_res_idx[j]) + 1] =
                            Append(@, vals[j])],
            vals, t_res_idx, key_indices, j + 1)

\* out_example[name] for a mapping
Lookup(out_example, name) ==
    out_example.vals[IndexOf(out_example.names, name) + 1]

\* lines 87-120: check the kind against _mode, memoize it, store the results
Scatter(acc, out_example, tr, key_indices) ==
    IF ReturnTypeChanged(acc.mode, out_example.kind)
    THEN [acc EXCEPT !.status = "ValueError:type"]
    ELSE LET a == [acc EXCEPT !.mode = out_example.kind]
         IN CASE out_example.kind = "tuple" ->
                   \* key_indices.index(key_index) raises ValueError when
                   \* key_index is not among them
                   IF \E j \in 1..Len(tr.res_idx) :
                         ~InSeq(tr.res_idx[j], key_indices)
                   THEN [a EXCEPT !.status = "ValueError:index"]
                   ELSE [a EXCEPT !.out =
                           ScatterTuple(a.out, out_example.vals, tr.res_idx,
                                        key_indices, 1)]
              [] out_example.kind = "dict" ->
                   IF \E c \in 1..Len(key_indices) :
                         ~InSeq(At(keys, key_indices[c]), out_example.names)
                   THEN [a EXCEPT !.status = "KeyError"]
                   ELSE [a EXCEPT !.out =
                           [c \in 1..Len(key_indices) |->
                              Append(a.out[c],
                                     Lookup(out_example,
                                            At(keys, key_indices[c])))]]
              [] out_example.kind = "none" ->
                   IF \E c \in 1..Len(key_indices) :
                         key_indices[c] >= Len(out_example.vals)
                   THEN [a EXCEPT !.status = "IndexError"]
                   ELSE [a EXCEPT !.out =
                           [c \in 1..Len(key_indices) |->
                              Append(a.out[c],
                                     At(out_example.vals, key_indices[c]))]]

\* lines 87-120 after a call that returned, and the exception of one that
\* raised
AfterCall(acc, call, inputs, tr, key_indices) ==
    IF call.status # "ok"
    THEN [acc EXCEPT !.status = call.status]
    ELSE Scatter([acc EXCEPT !.calls =
                    Append(@, [t |-> call.callee, style |-> call.style,
                               names |-> <<>>, args |-> inputs,
                               kind |-> call.out.kind])],
                 call.out, tr, key_indices)

\* a variant of Inputs: the fetched values taken in the order fetched
InputsInFetchOrder(in_example, ops_idx, t_op_idx) ==
    [j \in 1..Len(t_op_idx) |-> in_example[j]]

\* inputs = [in_example[ops_idx.index(i)] for i in t_op_idx]
Inputs(in_example, ops_idx, t_op_idx) ==
    [j \in 1..Len(t_op_idx) |-> At(in_example, IndexOf(ops_idx, t_op_idx[j]))]

\* lines 66-120: one transform on one fetched row
TransformStep(acc, inputs, tr, ops_idx, key_indices) ==
    AfterCall(acc, CallTransform(tr.t, inputs, ops_idx), inputs, tr,
              key_indices)

\* zip(*in_examples): the r-th fetched row
Row(in_examples, r) == [c \in 1..Len(in_examples) |-> in_examples[c][r]]

\* the number of rows zip(*in_examples) yields
RowCount(in_examples) ==
    IF Len(in_examples) = 0 THEN 0 ELSE Len(in_examples[1])

RECURSIVE RunFrom(_, _, _, _, _, _)
\* lines 65-66: for in_example in zip(*in_examples): for ... in transforms
RunFrom(acc, k, in_examples, transforms, ops_idx, key_indices) ==
    IF acc.status # "ok" \/ k >= RowCount(in_examples) * Len(transforms)
    THEN acc
    ELSE RunFrom(
            TransformStep(
                acc,
                Inputs(Row(in_examples, (k \div Len(transforms)) + 1), ops_idx,
                       transforms[(k % Len(transforms)) + 1].ops_idx),
                transforms[(k % Len(transforms)) + 1], ops_idx, key_indices),
            k + 1, in_examples, transforms, ops_idx, key_indices)

\* what a get_examples call leaves: its status, the columns it returns, the
\* _mode it leaves, the columns it asked the wrapped dataset for, the calls
\* it made (and, for the batch class, the lengths it compared)
Outcome(fin, fetched) ==
    [status  |-> fin.status,
     cols    |-> IF fin.status = "ok" THEN fin.out ELSE <<>>,
     mode    |-> fin.mode,
     fetched |-> fetched,
     calls   |-> fin.calls,
     len     |-> 0,
     lens    |-> <<>>]

\* lines 62-122
RunTransforms(m, indices, key_indices, cand) ==
    Outcome(RunFrom([status |-> "ok",
                     out    |-> [c \in 1..Len(key_indices) |-> <<>>],
                     mode   |-> m,
                     calls  |-> <<>>],
                    0, DatasetGetExamples(indices, Some(cand.ops_idx)),
                    cand.transforms, cand.ops_idx, key_indices),
            Some(cand.ops_idx))

\* lines 58-59: if key_indices is None: key_indices = range(len(self._keys))
KeyIndices(key_indices) ==
    IF key_indices.none THEN Range(Len(keys)) ELSE key_indices.v

\* _Transform.get_examples(indices, key_indices) on an object whose _mode is m
GetExamples(m, indices, key_indices) ==
    RunTransforms(m, indices, KeyIndices(key_indices),
                  FindCandidateTransforms(KeyIndices(key_indices)))

-----------------------------------------------------------------------------
(* _TransformBatch *)

\* lines 151-157: the expected length of every returned column
ExpectedLen(indices) ==
    CASE indices.kind = "none" -> NRows
      [] indices.kind = "slice" ->
            SliceLen(indices.start, indices.stop, indices.step, NRows)
      [] indices.kind = "list" -> Len(indices.v)

\* self._transform_batch(...): one column per key, or a single column; the
\* callable drops the last value of column badcol
BatchInvoke(style, names, in_examples) ==
    LET nrows == Len(in_examples[1])
        kind == behav[1]
        Col(j) == [r \in 1..nrows |->
                     Val(0, j - 1, style, names,
                         [c \in 1..Len(in_examples) |-> in_examples[c][r]])]
        Shaped(j) == IF j = badcol /\ nrows > 0
                     THEN SubSeq(Col(j), 1, nrows - 1)
                     ELSE Col(j)
    IN [kind  |-> kind,
        names |-> IF kind = "dict" THEN keys ELSE <<>>,
        vals  |-> [j \in 1..(IF kind = "none" THEN 1 ELSE Len(keys)) |->
                     Shaped(j)]]

\* a variant of CallTransformBatch: the columns passed positionally whatever
\* the mode of the wrapped dataset
CallTransformBatchPositional(in_examples) ==
    [style |-> "pos", names |-> <<>>,
     out |-> BatchInvoke("pos", <<>>, in_examples)]

\* lines 164-171: the call, by the mode of the wrapped dataset
CallTransformBatch(in_examples) ==
    IF dsMode = "dict"
    THEN [style |-> "kw", names |-> DatasetKeys,
          out |-> BatchInvoke("kw", DatasetKeys, in_examples)]
    ELSE [style |-> "pos", names |-> <<>>,
          out |-> BatchInvoke("pos", <<>>, in_examples)]

\* a variant of BatchReturnTypeChanged: "is" where the source has "is not"
BatchReturnTypeInverted(m, kind) == m # "unset" /\ m = kind

\* hasattr(self, "_mode") and self._mode is not <kind>  (lines 174, 185, 199)
BatchReturnTypeChanged(m, kind) == m # "unset" /\ m # kind

\* a variant of LengthChanged: only the first column is measured
LengthChangedFirstOnly(out_examples, len_) ==
    Len(out_examples) > 0 /\ Len(out_examples[1]) # len_

\* not all(len(col) == len_ for col in out_examples)
LengthChanged(out_examples, len_) ==
    ~(\A j \in 1..Len(out_examples) : Len(out_examples[j]) = len_)

\* lines 183, 194-197, 209: the requested columns of what the callable returned
BatchProject(out, key_indices) ==
    CASE out.kind = "tuple" ->
            IF \E c \in 1..Len(key_indices) : key_indices[c] >= Len(out.vals)
            THEN [status |-> "IndexError", cols |-> <<>>]
            ELSE [status |-> "ok",
                  cols |-> [c \in 1..Len(key_indices) |->
                              At(out.vals, key_indices[c])]]
      [] out.kind = "dict" ->
            IF \E c \in 1..Len(key_indices) :
                  ~InSeq(At(keys, key_indices[c]), out.names)
            THEN [status |-> "KeyError", cols |-> <<>>]
            ELSE [status |-> "ok",
                  cols |-> [c \in 1..Len(key_indices) |->
                              Lookup(out, At(keys, key_indices[c]))]]
      [] out.kind = "none" ->
            IF \E c \in 1..Len(key_indices) : key_indices[c] >= 1
            THEN [status |-> "IndexError", cols |-> <<>>]
            ELSE [status |-> "ok",
                  cols |-> [c \in 1..Len(key_indices) |->
                              At(out.vals, key_indices[c])]]

\* lines 173-209: the checks on what the callable returned
BatchChecks(m, call, len_, key_indices, in_examples) ==
    [status  |-> IF BatchReturnTypeChanged(m, call.out.kind)
                 THEN "ValueError:type"
                 ELSE IF LengthChanged(call.out.vals, len_)
                 THEN "ValueError:length"
                 ELSE BatchProject(call.out, key_indices).status,
     cols    |-> IF \/ BatchReturnTypeChanged(m, call.out.kind)
                    \/ LengthChanged(call.out.vals, len_)
                 THEN <<>>
                 ELSE BatchProject(call.out, key_indices).cols,
     mode    |-> IF BatchReturnTypeChanged(m, call.out.kind)
                 THEN m ELSE call.out.kind,
     fetched |-> NoneArg,
     calls   |-> <<[t |-> 0, style |-> call.style, names |-> call.names,
                    args |-> in_examples, kind |-> call.out.kind]>>,
     len     |-> len_,
     lens    |-> [j \in 1..Len(call.out.vals) |-> Len(call.out.vals[j])]]

\* lines 162-171
BatchRun(m, len_, key_indices, in_examples) ==
    BatchChecks(m, CallTransformBatch(in_examples), len_, key_indices,
                in_examples)

\* _TransformBatch.get_examples(indices, key_indices) on an object whose
\* _mode is m
BatchGetExamples(m, indices, key_indices) ==
    BatchRun(m, ExpectedLen(indices), KeyIndices(key_indices),
             DatasetGetExamples(indices, NoneArg))

-----------------------------------------------------------------------------
(* The mode property of both classes (lines 26-30, 144-148) *)

\* get_examples of the class of the object under test
EngineGetExamples(m, indices, key_indices) ==
    IF engine = "row" THEN GetExamples(m, indices, key_indices)
    ELSE BatchGetExamples(m, indices, key_indices)

ListArg(s) == [kind |-> "list", v |-> s, start |-> 0, stop |-> 0, step |-> 1]
AllRows == [kind |-> "none", v |-> <<>>, start |-> 0, stop |-> 0, step |-> 1]
SliceArg(a, b, c) ==
    [kind |-> "slice", v |-> <<>>, start |-> a, stop |-> b, step |-> c]

\* return self._mode, after the get_examples call r
ReturnMode(r) ==
    [r EXCEPT !.status = IF @ = "ok" /\ r.mode = "unset"
                         THEN "AttributeError" ELSE @,
              !.cols = <<>>]

\* a variant of ModeProperty: row 0 is materialized at every read
ModePropertyNotLazy(m) ==
    ReturnMode(EngineGetExamples(m, ListArg(<<0>>), NoneArg))

\* if not hasattr(self, "_mode"): self.get_examples([0], None)
\* return self._mode
ModeProperty(m) ==
    IF m # "unset"
    THEN [status |-> "ok", cols |-> <<>>, mode |-> m, fetched |-> NoneArg,
          calls |-> <<>>, len |-> 0, lens |-> <<>>]
    ELSE ReturnMode(EngineGetExamples(m, ListArg(<<0>>), NoneArg))

-----------------------------------------------------------------------------
(* Arguments and configurations explored *)

Kinds == {"tuple", "dict", "none"}

RegFamilies ==
    { << >>,
      << [ops |-> <<"a", "b">>, res |-> <<"sum">>] >>,
      << [ops |-> <<"a">>, res |-> <<"x">>],
         [ops |-> <<"b">>, res |-> <<"y">>] >>,
      << [ops |-> <<"c", "a">>, res |-> <<"q", "p">>],
         [ops |-> <<"a">>, res |-> <<"r">>] >> }

BatchKeyFamilies == { <<"u">>, <<"u", "v">> }

\* lists of one row, or of two distinct rows in either order
RowLists ==
    {ListArg(<<r>>) : r \in 0..(NRows - 1)} \cup
    {ListArg(<<r, q>>) : <<r, q>> \in
        {p \in (0..(NRows - 1)) \X (0..(NRows - 1)) : p[1] # p[2]}}

\* slices start:stop:step, some of them empty, some reaching past the end
Slices ==
    {SliceArg(a, b, c) : a \in 0..1, b \in 1..(NRows + 1), c \in 1..2}

RowArgs == {AllRows} \cup RowLists
BatchRowArgs == {AllRows} \cup RowLists \cup Slices

\* column selections: None and every non-empty list of distinct positions
KeyArgs(n) ==
    {NoneArg} \cup {Some(s) : s \in DistinctSeqs(0..(n - 1)) \ {<<>>}}

\* no thread is inside get_examples
NoThreads == <<>>

\* no LRScheduler extension is registered
NoExtension == [op |-> "none"]

\* no callable was handed to _as_extension
NoEntry == [op |-> "none"]

\* the caller is between two calls
Idle ==
    [op |-> "idle", indices |-> AllRows, key_indices |-> NoneArg,
     pre |-> "unset", status |-> "ok", cols |-> <<>>, mode |-> "unset",
     fetched |-> NoneArg, calls |-> <<>>, len |-> 0, lens |-> <<>>,
     fetches |-> 0]

\* the call op(indices, key_indices) on an object whose _mode was pre, with
\* outcome r; fetches counts its get_examples calls on the wrapped dataset
Called(op, indices, key_indices, pre, r, fetches) ==
    [op |-> op, indices |-> indices, key_indices |-> key_indices,
     pre |-> pre, status |-> r.status, cols |-> r.cols, mode |-> r.mode,
     fetched |-> r.fetched, calls |-> r.calls, len |-> r.len,
     lens |-> r.lens, fetches |-> fetches]

InitRow ==
    /\ engine = "row"
    /\ dsMode \in Kinds
    /\ regs \in RegFamilies
    /\ keys = TransformInitKeys(regs)
    /\ behav \in [1..Len(regs) -> Kinds]
    /\ badcol = 0

InitBatch ==
    /\ engine = "batch"
    /\ dsMode \in Kinds
    /\ regs = <<>>
    /\ keys \in BatchKeyFamilies
    /\ behav \in [1..1 -> Kinds]
    /\ badcol \in 0..Len(keys)

Init ==
    /\ (InitRow \/ InitBatch)
    /\ mode = "unset"
    /\ last = Idle
    /\ threads = NoThreads
    /\ lr = NoExtension
    /\ entry = NoEntry

\* a call of _Transform.get_examples
RowGetExamples ==
    /\ engine = "row"
    /\ last.op = "idle"
    /\ \E indices \in RowArgs, key_indices \in KeyArgs(Len(keys)) :
          last' = Called("get_examples", indices, key_indices, mode,
                         GetExamples(mode, indices, key_indices), 1)
    /\ mode' = last'.mode
    /\ UNCHANGED <<cfgvars, behav, badcol>>

\* a call of _TransformBatch.get_examples
BatchCall ==
    /\ engine = "batch"
    /\ last.op = "idle"
    /\ \E indices \in BatchRowArgs, key_indices \in KeyArgs(Len(keys)) :
          last' = Called("get_examples", indices, key_indices, mode,
                         BatchGetExamples(mode, indices, key_indices), 1)
    /\ mode' = last'.mode
    /\ UNCHANGED <<cfgvars, behav, badcol>>

\* a read of the mode property
ReadMode ==
    /\ last.op = "idle"
    /\ last' = Called("mode", ListArg(<<0>>), NoneArg, mode,
                      ModeProperty(mode), IF mode = "unset" THEN 1 ELSE 0)
    /\ mode' = last'.mode
    /\ UNCHANGED <<cfgvars, behav, badcol>>

\* the caller takes the outcome of its call and goes on
Return ==
    /\ last.op # "idle"
    /\ last' = Idle
    /\ UNCHANGED <<cfgvars, behav, badcol, mode>>

\* a registered callable starts to return values of another kind
Drift ==
    /\ last.op = "idle"
    /\ \E b \in [1..Len(behav) -> Kinds] : b # behav /\ behav' = b
    /\ UNCHANGED <<cfgvars, badcol, mode, last>>

\* the batch callable starts or stops changing the length of a column
DriftLength ==
    /\ engine = "batch"
    /\ last.op = "idle"
    /\ \E c \in 0..Len(keys) : c # badcol /\ badcol' = c
    /\ UNCHANGED <<cfgvars, behav, mode, last>>

Next ==
    \/ RowGetExamples
    \/ BatchCall
    \/ ReadMode
    \/ Return
    \/ Drift
    \/ DriftLength

vars ==
    <<engine, dsMode, regs, keys, behav, badcol, mode, last, threads, lr,
      entry>>

Spec == Init /\ [][Next]_vars

-----------------------------------------------------------------------------
(* What the properties below speak of *)

IsRowCall == engine = "row" /\ last.op = "get_examples"
IsBatchCall == engine = "batch" /\ last.op = "get_examples"

\* the requested column positions of the last call, in the order asked
Requested ==
    IF last.key_indices.none THEN Range(Len(keys)) ELSE last.key_indices.v

\* the number of rows the last call asked for
RowsAsked == Len(DatasetRows(last.indices))

\* the positions, among the engine's keys, of the results of registration t
ResultPositions(t) ==
    {q \in 0..(Len(keys) - 1) : \E j \in 1..Len(regs[t].res) :
                                    regs[t].res[j] = keys[q + 1]}

\* the positions, among the wrapped dataset's keys, of its operands
OperandPositions(t) ==
    {q \in 0..(Len(DatasetKeys) - 1) : \E j \in 1..Len(regs[t].ops) :
                                           regs[t].ops[j] = DatasetKeys[q + 1]}

\* every result of registration t was requested in the last call
FullyRequested(t) == ResultPositions(t) \subseteq ToSet(Requested)

\* how many times the last call ran the callable of registration t
Invocations(t) ==
    Cardinality({j \in 1..Len(last.calls) : last.calls[j].t = t - 1})

\* the last call saw a callable return a value of another kind than the one
\* memoized before the call
SawOtherKind ==
    /\ last.pre # "unset"
    /\ \E j \in 1..Len(last.calls) : last.calls[j].kind # last.pre

-----------------------------------------------------------------------------
(* C1: in both classes, a get_examples call on an object whose mode an      *)
(* earlier call memoized, in which a callable returns a value of another   *)
(* kind, raises the return-type ValueError, returns no columns and leaves  *)
(* the memoized mode as it was.                                            *)
C1_ReturnTypeDriftRaises ==
    (last.op = "get_examples" /\ SawOtherKind)
        => /\ last.status = "ValueError:type"
           /\ last.cols = <<>>
           /\ mode = last.pre

\* Scenario C: a batch callable that returned a tuple now returns a mapping
C1_Witness ==
    /\ IsBatchCall
    /\ last.pre = "tuple"
    /\ last.calls[1].kind = "dict"
    /\ last.status = "ValueError:type"

(* C2: for a single caller, the memoized mode never changes once it is     *)
(* set, whatever calls follow and whether they raise, and every read of    *)
(* mode from then on returns it.                                           *)
C2_ModeStableStep ==
    mode # "unset"
        => /\ mode' = mode
           /\ (last'.op = "mode" => last'.status = "ok" /\ last'.mode = mode)

C2_ModeNeverChanges == [][C2_ModeStableStep]_vars

\* a row-wise call that raised after a mapping was memoized, the mode kept
C2_Witness ==
    /\ IsRowCall
    /\ last.pre = "dict"
    /\ last.status \in {"ValueError:type", "KeyError"}
    /\ mode = "dict"

(* C3: for both classes, get_examples(idx, subset) equals the columns at   *)
(* the positions of subset taken out of get_examples(idx, None), whenever  *)
(* both calls return.                                                      *)
ProjectionOf(full) ==
    full.status = "ok"
        => last.cols = [c \in 1..Len(Requested) |->
                          At(full.cols, Requested[c])]

C3_ColumnProjection ==
    (last.op = "get_examples" /\ last.status = "ok")
        => ProjectionOf(EngineGetExamples(last.pre, last.indices, NoneArg))

C5_MinimalFetch ==
    IsRowCall
        => /\ ~last.fetched.none
           /\ ToSet(last.fetched.v) =
                 UNION {OperandPositions(t) :
                          t \in {u \in 1..Len(regs) : FullyRequested(u)}}
           /\ \A i, j \in 1..Len(last.fetched.v) :
                 i < j => last.fetched.v[i] < last.fetched.v[j]

\* two registrations share operand a; only one of them is selected
C5_Witness ==
    /\ IsRowCall
    /\ Len(keys) = 3
    /\ FullyRequested(1) /\ ~FullyRequested(2)
    /\ last.fetched.v = <<0, 2>>

(* C6 as stated: the batch get_examples returns only if every column the   *)
(* callable returned has length L, and otherwise raises the length         *)
(* ValueError and returns nothing.                                         *)
SomeLengthWrong == \E j \in 1..Len(last.lens) : last.lens[j] # RowsAsked

C6_LengthErrorAlways ==
    IsBatchCall
        => /\ last.status = "ok" => ~SomeLengthWrong
           /\ SomeLengthWrong
                => last.status = "ValueError:length" /\ last.cols = <<>>

(* C6 as amended: the batch get_examples returns only if every column the  *)
(* callable returned has length L; otherwise it returns nothing and raises *)
(* a ValueError: the return-type one when the returned kind differs from   *)
(* the memoized mode (that check comes first), else the length one.        *)
C6_LengthEnforced ==
    IsBatchCall
        => /\ last.status = "ok" => ~SomeLengthWrong
           /\ SomeLengthWrong
                => /\ last.cols = <<>>
                   /\ last.status = IF SawOtherKind THEN "ValueError:type"
                                    ELSE "ValueError:length"

\* a slice of one row; the callable returned a column without its last value
C6_Witness ==
    /\ IsBatchCall
    /\ last.indices.kind = "slice"
    /\ RowsAsked = 1
    /\ SomeLengthWrong
    /\ last.status = "ValueError:length"

(* C7: a row-wise get_examples call in which every requested key is        *)
(* produced by a selected registration, on a tuple-mode dataset and with   *)
(* no change of return type, returns one column per requested position,    *)
(* each holding one value per requested row.                               *)
AllRequestedCovered ==
    \A c \in 1..Len(Requested) :
        \E t \in 1..Len(regs) :
            FullyRequested(t) /\ Requested[c] \in ResultPositions(t)

C7_OneValuePerRow ==
    (IsRowCall /\ dsMode = "tuple" /\ AllRequestedCovered
               /\ last.status # "ValueError:type")
        => /\ last.status = "ok"
           /\ Len(last.cols) = Len(Requested)
           /\ \A c \in 1..Len(last.cols) : Len(last.cols[c]) = RowsAsked

(* C8: for a wrapped dataset of tuple or of mapping mode, a row-wise        *)
(* get_examples call runs the registered callable of every selected        *)
(* registration on each fetched row with its operand values, positionally  *)
(* for tuple mode and by operand key name for mapping mode, and returns    *)
(* without error (the callables returning tuples, as memoized). For a      *)
(* scalar-mode dataset line 86 calls self.transform, not the callable.     *)
PassedAsDeclared(call, t) ==
    /\ call.args = [j \in 1..Len(regs[t].ops) |->
                      Cell(DatasetRows(last.indices)[1],
                           IndexOf(DatasetKeys, regs[t].ops[j]))]
    /\ IF dsMode = "dict"
       THEN call.style = "kw" /\ call.names = regs[t].ops
       ELSE call.style = "pos"

C8_AnyDatasetMode ==
    (IsRowCall /\ dsMode # "none" /\ RowsAsked = 1
               /\ last.pre \in {"unset", "tuple"}
               /\ \A t \in 1..Len(regs) : behav[t] = "tuple")
        => /\ last.status = "ok"
           /\ \A t \in 1..Len(regs) :
                 FullyRequested(t)
                    => \E j \in 1..Len(last.calls) :
                          /\ last.calls[j].t = t - 1
                          /\ PassedAsDeclared(last.calls[j], t)

-----------------------------------------------------------------------------
(* Two threads in get_examples of one object whose _mode is not yet set.   *)
(* Each thread runs the loop body of lines 66-120 (one pass for the batch  *)
(* class, lines 162-209): the callable returns (lines 76-86), the thread    *)
(* tests hasattr(self, "_mode") and self._mode is not <kind> (line 88),    *)
(* then assigns self._mode (line 92). The interpreter may switch threads   *)
(* between any two of these steps.                                         *)

\* the most passes of the loop body one call makes
MaxPasses == 2

Thread(n) == [pc |-> "call", kind |-> "unset", left |-> n, seen |-> {}]

InitThreads ==
    /\ engine \in {"row", "batch"}
    /\ dsMode = "tuple"
    /\ regs = <<>>
    /\ keys = <<"u">>
    /\ behav = <<"tuple">>
    /\ badcol = 0
    /\ mode = "unset"
    /\ last = Idle
    /\ lr = NoExtension
    /\ entry = NoEntry
    /\ \E n \in [1..2 -> 1..(IF engine = "row" THEN MaxPasses ELSE 1)] :
          threads = [i \in 1..2 |-> Thread(n[i])]

\* the check of the class of the object
TypeChanged(m, kind) ==
    IF engine = "row" THEN ReturnTypeChanged(m, kind)
    ELSE BatchReturnTypeChanged(m, kind)

\* lines 76-86, 164-171: the callable returns a value of some kind
ThreadInvoke(i) ==
    /\ threads[i].pc = "call"
    /\ \E k \in Kinds :
          threads' = [threads EXCEPT ![i].pc = "check", ![i].kind = k,
                                     ![i].seen = @ \cup {k}]
    /\ UNCHANGED <<engine, dsMode, regs, keys, behav, badcol, mode, last, lr,
                   entry>>

\* lines 88-91, 174-177: the test, and the raise when it fails
ThreadCheck(i) ==
    /\ threads[i].pc = "check"
    /\ threads' = [threads EXCEPT ![i].pc =
                      IF TypeChanged(mode, threads[i].kind)
                      THEN "raised" ELSE "write"]
    /\ UNCHANGED <<engine, dsMode, regs, keys, behav, badcol, mode, last, lr,
                   entry>>

\* lines 92, 178: self._mode = <kind>, then the rest of the pass
ThreadWrite(i) ==
    /\ threads[i].pc = "write"
    /\ mode' = threads[i].kind
    /\ threads' = [threads EXCEPT ![i].left = @ - 1,
                                  ![i].pc = IF threads[i].left = 1
                                            THEN "done" ELSE "call"]
    /\ UNCHANGED <<engine, dsMode, regs, keys, behav, badcol, last, lr, entry>>

NextThreads ==
    \E i \in 1..2 : ThreadInvoke(i) \/ ThreadCheck(i) \/ ThreadWrite(i)

SpecThreads == InitThreads /\ [][NextThreads]_vars

(* C9: under every interleaving of two concurrent get_examples calls on an *)
(* object whose mode is not yet memoized, the memoized mode never changes  *)
(* once written, and when the calls have seen return values of different   *)
(* kinds at least one of them has raised the return-type ValueError.       *)
BothFinished == \A i \in 1..2 : threads[i].pc \in {"done", "raised"}

C9_DriftIsCaught ==
    (BothFinished /\ Cardinality(threads[1].seen \cup threads[2].seen) > 1)
        => \E i \in 1..2 : threads[i].pc = "raised"

C9_ConvergesOrRaises ==
    /\ [][mode # "unset" => mode' = mode]_vars
    /\ [](threads # NoThreads => C9_DriftIsCaught)

-----------------------------------------------------------------------------
(* LRScheduler (training/extensions/lr_scheduler.py) *)

\* the most calls of the extension followed
MaxSteps == 3

NoArg == [arg |-> "noarg", v |-> 0]
NoneValue == [arg |-> "none", v |-> 0]
Value(x) == [arg |-> "value", v |-> x]

\* a variant of GetValueFromLogReport: a missing key reads as None
GetValueOrNone(observation, key) ==
    IF key = "None" \/ key \notin DOMAIN observation
    THEN [status |-> "ok", value |-> NoneValue]
    ELSE [status |-> "ok", value |-> Value(observation[key])]

\* _get_value_from_log_report(manager, key)
GetValueFromLogReport(observation, key) ==
    IF key = "None" THEN [status |-> "ok", value |-> NoneValue]
    ELSE IF key \notin DOMAIN observation
    THEN [status |-> "ValueError", value |-> NoneValue]
    ELSE [status |-> "ok", value |-> Value(observation[key])]

\* scheduler.step(value), unless getting the value raised
StepWith(steps, got) ==
    IF got.status = "ok"
    THEN [status |-> "ok", steps |-> Append(steps, got.value)]
    ELSE [status |-> got.status, steps |-> steps]

\* LRScheduler.step_by_value(key)(manager, scheduler)
StepByValue(key, observation, steps) ==
    StepWith(steps, GetValueFromLogReport(observation, key))

\* _default_stepper(manager, scheduler)
DefaultStepper(sched, observation, steps) ==
    IF sched = "ReduceLROnPlateau"
    THEN StepByValue("val/loss", observation, steps)
    ELSE [status |-> "ok", steps |-> Append(steps, NoArg)]

\* LRScheduler.__call__(manager): self.stepper(manager, self.scheduler)
CallExtension(stepper, sched, observation, steps) ==
    IF stepper = "default"
    THEN DefaultStepper(sched, observation, steps)
    ELSE StepByValue(stepper, observation, steps)

\* what manager.observation may hold
Observations ==
    UNION {[S -> 1..2] : S \in SUBSET {"val/loss", "train/loss"}}

InitLR ==
    /\ engine = "row"
    /\ dsMode = "tuple"
    /\ regs = <<>>
    /\ keys = <<>>
    /\ behav = <<>>
    /\ badcol = 0
    /\ mode = "unset"
    /\ last = Idle
    /\ threads = NoThreads
    /\ entry = NoEntry
    /\ \E sched \in {"ReduceLROnPlateau", "StepLR"},
          stepper \in {"default", "None", "val/loss", "train/loss"},
          observation \in Observations :
          lr = [op |-> "init", sched |-> sched, stepper |-> stepper,
                observation |-> observation, steps |-> <<>>,
                before |-> <<>>, status |-> "ok"]

\* the extension after a call with outcome r
AfterCallExtension(x, r) ==
    [x EXCEPT !.op = "call", !.before = x.steps, !.steps = r.steps,
              !.status = r.status]

\* the manager calls the extension
LRCall ==
    /\ Len(lr.steps) < MaxSteps
    /\ lr' = AfterCallExtension(
                lr, CallExtension(lr.stepper, lr.sched, lr.observation,
                                  lr.steps))
    /\ UNCHANGED <<engine, dsMode, regs, keys, behav, badcol, mode, last,
                   threads, entry>>

\* the training loop reports the values of the next iteration
LRReport ==
    /\ \E o \in Observations :
          o # lr.observation /\ lr' = [lr EXCEPT !.observation = o,
                                                 !.op = "report"]
    /\ UNCHANGED <<engine, dsMode, regs, keys, behav, badcol, mode, last,
                   threads, entry>>

NextLR == LRCall \/ LRReport

SpecLR == InitLR /\ [][NextLR]_vars

(* C10: a call of the LRScheduler extension with the default stepper steps *)
(* the scheduler exactly once: a ReduceLROnPlateau scheduler with the      *)
(* value manager.observation['val/loss'], any other scheduler with no      *)
(* argument; when 'val/loss' is not in the observation a ValueError is     *)
(* raised and the scheduler is not stepped.                                *)
C10_DefaultStepper ==
    (lr.op = "call" /\ lr.stepper = "default")
        => IF lr.sched = "ReduceLROnPlateau"
           THEN IF "val/loss" \in DOMAIN lr.observation
                THEN /\ lr.status = "ok"
                     /\ lr.steps =
                          lr.before \o <<Value(lr.observation["val/loss"])>>
                ELSE lr.status = "ValueError" /\ lr.steps = lr.before
           ELSE lr.status = "ok" /\ lr.steps = lr.before \o <<NoArg>>

\* a plateau scheduler, stepped before, and no val/loss reported this time
C10_Witness ==
    /\ lr.op = "call"
    /\ lr.stepper = "default"
    /\ lr.sched = "ReduceLROnPlateau"
    /\ "val/loss" \notin DOMAIN lr.observation
    /\ "train/loss" \in DOMAIN lr.observation
    /\ lr.status = "ValueError"
    /\ Len(lr.steps) = 1


-----------------------------------------------------------------------------
(* Extensions: extension.py *)

\* the number of lifecycle events the manager delivers to one extension
MaxEvents == 2

PRIORITY_WRITER == 300
PRIORITY_EDITOR == 200
PRIORITY_READER == 100

\* Extension.trigger and Extension.priority, the class attributes
ExtensionTrigger == <<1, "iteration">>
ExtensionPriority == PRIORITY_READER

\* the hooks a callable may carry as attributes, and all lifecycle events
Hooks == {"finalize", "initialize", "on_error"}
Events == {"call"} \cup Hooks
Attrs == {"trigger", "priority"} \cup Hooks

\* the value of an attribute the object does not have
NoTrigger == <<0, "absent">>
NoPriority == 0

\* the callables handed to _as_extension: instances of a subclass of
\* Extension that defines __call__ and the attributes in attrs, and other
\* callables (functions, lambdas) carrying the attributes in attrs
Callables ==
    {[class |-> c, attrs |-> a,
      trigger |-> IF "trigger" \in a THEN t ELSE NoTrigger,
      priority |-> IF "priority" \in a THEN p ELSE NoPriority] :
        c \in {"Extension", "function"}, a \in SUBSET Attrs,
        t \in {<<1, "epoch">>, <<2, "iteration">>},
        p \in {PRIORITY_WRITER, PRIORITY_EDITOR}}

\* make_extension(trigger, priority, ...)(ext): every attribute is set
MakeExtension(ext, trigger, priority) ==
    [ext EXCEPT !.attrs = Attrs, !.trigger = trigger, !.priority = priority]

\* getattr(o, name, default) for the attributes trigger and priority
GetAttrIgnored(o, name, default) == default

GetAttr(o, name, default) ==
    IF name \in o.attrs THEN o[name] ELSE default

\* isinstance(ext, Extension)
IsExtension(ext) == ext.class = "Extension"

\* _WrappedExtension(ext)
WrappedExtension(ext) ==
    [wraps |-> TRUE, obj |-> ext,
     trigger |-> GetAttr(ext, "trigger", ExtensionTrigger),
     priority |-> GetAttr(ext, "priority", ExtensionPriority)]

\* _as_extension(ext): an Extension instance is returned as it is; its
\* trigger and priority are its own or the ones it inherits from Extension
AsExtension(ext) ==
    IF IsExtension(ext)
    THEN [wraps |-> FALSE, obj |-> ext,
          trigger |-> GetAttr(ext, "trigger", ExtensionTrigger),
          priority |-> GetAttr(ext, "priority", ExtensionPriority)]
    ELSE WrappedExtension(ext)

\* the hook of the callable that the event e on the extension x runs:
\* "call" runs the callable itself; another event runs the callable's own
\* attribute of that name, or the method of Extension, which does nothing
HookRun(x, e) ==
    IF x.wraps
    THEN IF e = "call" THEN {e}
         ELSE IF e \in x.obj.attrs THEN {e} ELSE {}
    ELSE IF e = "call" \/ e \in x.obj.attrs THEN {e} ELSE {}

\* the invocation counts of the callable's hooks after the event e on x
Deliver(x, e, hooks) ==
    [h \in Events |-> IF h \in HookRun(x, e) THEN hooks[h] + 1 ELSE hooks[h]]

NoCounts == [h \in Events |-> 0]

Total(counts) ==
    counts["call"] + counts["finalize"] + counts["initialize"]
        + counts["on_error"]

InitExt ==
    /\ engine = "row"
    /\ dsMode = "tuple"
    /\ regs = <<>>
    /\ keys = <<>>
    /\ behav = <<>>
    /\ badcol = 0
    /\ mode = "unset"
    /\ last = Idle
    /\ threads = NoThreads
    /\ lr = NoExtension
    /\ \E ext \in Callables, made \in BOOLEAN :
          LET f == IF made /\ ~IsExtension(ext)
                   THEN MakeExtension(ext, <<1, "epoch">>, PRIORITY_WRITER)
                   ELSE ext
          IN  entry = [op |-> "init", ext |-> f, res |-> AsExtension(f),
                       hooks |-> NoCounts, events |-> NoCounts]

\* the manager delivers the lifecycle event e to the extension
ExtEvent(e) ==
    /\ entry.op # "none"
    /\ Total(entry.events) < MaxEvents
    /\ entry' = [entry EXCEPT
                    !.op = e,
                    !.hooks = Deliver(entry.res, e, entry.hooks),
                    !.events = [entry.events EXCEPT ![e] = @ + 1]]
    /\ UNCHANGED <<engine, dsMode, regs, keys, behav, badcol, mode, last,
                   threads, lr>>

NextExt == \E e \in Events : ExtEvent(e)

SpecExt == InitExt /\ [][NextExt]_vars

(* C11: _as_extension returns an Extension instance unchanged and wraps    *)
(* any other callable in a _WrappedExtension whose trigger and priority    *)
(* are the callable's own attributes when it has them and otherwise        *)
(* (1, 'iteration') and PRIORITY_READER; each event on the wrapper (call,  *)
(* initialize, finalize, on_error) runs the callable's hook of that name   *)
(* exactly once when the callable has it and runs nothing when it has not. *)
C11_AsExtension ==
    entry.op # "none" =>
        /\ entry.res.obj = entry.ext
        /\ entry.ext.class = "Extension" => ~entry.res.wraps
        /\ entry.ext.class # "Extension" =>
             /\ entry.res.wraps
             /\ entry.res.trigger =
                  IF "trigger" \in entry.ext.attrs THEN entry.ext.trigger
                  ELSE <<1, "iteration">>
             /\ entry.res.priority =
                  IF "priority" \in entry.ext.attrs THEN entry.ext.priority
                  ELSE 100
             /\ \A h \in Events :
                  entry.hooks[h] =
                     IF h = "call" \/ h \in entry.ext.attrs
                     THEN entry.events[h] ELSE 0

\* a lambda with its own trigger and finalize but no priority and no
\* initialize, after one initialize and one finalize event
C11_Witness ==
    /\ entry.op # "none"
    /\ entry.ext.class = "function"
    /\ entry.ext.attrs = {"trigger", "finalize"}
    /\ entry.events["initialize"] = 1
    /\ entry.events["finalize"] = 1
    /\ entry.hooks["finalize"] = 1
    /\ entry.res.priority = PRIORITY_READER


-----------------------------------------------------------------------------
(* Further properties of get_examples and mode *)

\* the registration that produces the key at position q of the engine's keys
Owner(q) == CHOOSE t \in 1..Len(regs) : q \in ResultPositions(t)

\* the place of the key at position q among the results registration t declares
ResultPlace(t, q) == IndexOf(regs[t].res, keys[q + 1])

\* the operand values registration t declares, taken from row r of the dataset
DeclaredOperands(t, r) ==
    [j \in 1..Len(regs[t].ops) |->
        Cell(r, IndexOf(DatasetKeys, regs[t].ops[j]))]

\* the reference result: for the requested position q, the values its owner
\* returns at the place of that key, one per requested row in the order asked
ReferenceColumn(q) ==
    [k \in 1..RowsAsked |->
        Val(Owner(q) - 1, ResultPlace(Owner(q), q), "pos", <<>>,
            DeclaredOperands(Owner(q), DatasetRows(last.indices)[k]))]

ReferenceResult == [c \in 1..Len(Requested) |-> ReferenceColumn(Requested[c])]

\* the callables return tuples now and did so in every earlier call
AlwaysTuples ==
    /\ last.pre \in {"unset", "tuple"}
    /\ \A t \in 1..Len(regs) : behav[t] = "tuple"

(* C12: on a tuple-mode dataset with tuple-returning transforms, a row-wise *)
(* get_examples(rows, cols) with cols any ordering of distinct, fully       *)
(* covered output positions returns the reference result: for each row in  *)
(* the order of rows, each selected transform gets the values of its       *)
(* declared operands in its declared order, and its i-th result goes to    *)
(* the column at the place of that result key among the requested ones.    *)
C12_ReferenceResult ==
    (IsRowCall /\ dsMode = "tuple" /\ AlwaysTuples /\ AllRequestedCovered)
        => /\ last.status = "ok"
           /\ last.cols = ReferenceResult

\* operands permuted against the dataset's key order and shared between the
\* two transforms, all three columns asked in an order that is not the key
\* order, two rows asked last row first
C12_Witness ==
    /\ IsRowCall /\ dsMode = "tuple" /\ AlwaysTuples /\ AllRequestedCovered
    /\ Len(regs) = 2
    /\ regs[1].ops = <<"c", "a">>
    /\ ~last.key_indices.none
    /\ last.key_indices.v = <<2, 0, 1>>
    /\ last.indices = ListArg(<<1, 0>>)
    /\ last.status = "ok"


\* the requested position q is a result of a registration the call selects
OwnedBySelected(q) ==
    \E t \in 1..Len(regs) : FullyRequested(t) /\ q \in ResultPositions(t)

\* the last call asked for a position that no selected registration produces
SomeGap == \E c \in 1..Len(Requested) : ~OwnedBySelected(Requested[c])

\* the columns of the last call: empty where no selected registration owns
\* the position, one value per requested row elsewhere
GapsEmptyOthersFilled ==
    /\ Len(last.cols) = Len(Requested)
    /\ \A c \in 1..Len(Requested) :
          IF OwnedBySelected(Requested[c])
          THEN Len(last.cols[c]) = RowsAsked
          ELSE last.cols[c] = <<>>

(* C13: in a row-wise get_examples call on a tuple-mode dataset whose      *)
(* callables keep their return type, a requested position that no selected *)
(* transform produces comes back as an empty column and no error is        *)
(* raised, while the columns of the selected transforms hold one value per *)
(* requested row.                                                          *)
C13_SilentGap ==
    (IsRowCall /\ dsMode = "tuple" /\ SomeGap
               /\ last.status # "ValueError:type")
        => last.status = "ok" /\ GapsEmptyOthersFilled


\* a get_examples call of the batch class, made by a caller or by the mode
\* property of an object whose mode is not yet memoized
IsBatchRun ==
    /\ engine = "batch"
    /\ last.op = "get_examples" \/ (last.op = "mode" /\ last.pre = "unset")

\* every column of the wrapped dataset for the rows the last call asked for
AllColumns ==
    [c \in 1..Len(DatasetKeys) |->
        [k \in 1..RowsAsked |-> Cell(DatasetRows(last.indices)[k], c - 1)]]

(* C14: every get_examples call of the batch class fetches all columns of   *)
(* the wrapped dataset for the requested rows (column argument None)       *)
(* whatever output columns were requested, and runs the batch callable     *)
(* exactly once, with the columns as positional arguments for a tuple- or  *)
(* scalar-mode dataset and as one keyword per dataset key for a            *)
(* mapping-mode dataset.                                                   *)
C14_BatchFetchesAllCallsOnce ==
    IsBatchRun
        => /\ last.fetches = 1
           /\ last.fetched = NoneArg
           /\ Len(last.calls) = 1
           /\ last.calls[1].args = AllColumns
           /\ IF dsMode = "dict"
              THEN /\ last.calls[1].style = "kw"
                   /\ last.calls[1].names = DatasetKeys
              ELSE /\ last.calls[1].style = "pos"
                   /\ last.calls[1].names = <<>>

\* a mapping-mode dataset, one output column of two asked, rows by a slice
C14_Witness ==
    /\ IsBatchCall
    /\ dsMode = "dict"
    /\ Len(keys) = 2
    /\ ~last.key_indices.none
    /\ last.key_indices.v = <<1>>
    /\ last.indices.kind = "slice"
    /\ RowsAsked = 1
    /\ last.status = "ok"


\* a read of the mode property of either class
IsModeRead == last.op = "mode"

\* the read finds the mode memoized: no call to the wrapped dataset, no
\* callable run, the memoized value returned
MemoizedRead ==
    /\ last.fetches = 0
    /\ last.calls = <<>>
    /\ last.status = "ok"
    /\ last.mode = last.pre

\* the read finds no mode memoized and materializes row 0 once
MaterializesRowZero ==
    /\ last.fetches = 1
    /\ last.indices = ListArg(<<0>>)
    /\ last.key_indices = NoneArg

(* C15 as stated: a read of mode on an object whose mode is not memoized   *)
(* performs one get_examples([0], None) and then returns a memoized value  *)
(* among tuple, mapping and scalar; once the mode is memoized a read calls *)
(* neither the wrapped dataset nor a transform.                            *)
C15_ModeReadReturns ==
    IsModeRead =>
        IF last.pre = "unset"
        THEN MaterializesRowZero /\ last.status = "ok" /\ last.mode \in Kinds
        ELSE MemoizedRead

(* C15, amended: a read of mode on an object whose mode is not memoized    *)
(* performs one get_examples([0], None); the read raises when that call    *)
(* raises or ran no transform, and otherwise returns the value the call    *)
(* memoized, one of tuple, mapping and scalar; once the mode is memoized a *)
(* read calls neither the wrapped dataset nor a transform and returns the  *)
(* memoized value.                                                         *)
C15_LazyMode ==
    IsModeRead =>
        IF last.pre = "unset"
        THEN /\ MaterializesRowZero
             /\ last.status = "ok" => last.mode \in Kinds /\ last.calls # <<>>
             /\ last.calls = <<>> => last.status # "ok"
        ELSE MemoizedRead

\* the first read of mode of a batch object whose callable shortens a
\* column: get_examples([0], None) raises the length error, and so the read
C15_Witness ==
    /\ IsModeRead
    /\ engine = "batch"
    /\ last.pre = "unset"
    /\ last.fetches = 1
    /\ last.status = "ValueError:length"

====
